---- MODULE Spec2Model ----
(***************************************************************************)
(* Model of app.py: the /invite handler (invite a user, attach to the      *)
(* access group, create a time-limited policy), the /cleanup handler       *)
(* (remove members older than 7 days) and the helpers they call.           *)
(*                                                                         *)
(* Python values: an optional value (a dict key that may be missing, a     *)
(* None) is a sequence of length 0 or 1: None == <<>>, Some(x) == <<x>>.   *)
(* A Python str that the code inspects character-wise (group names) is a   *)
(* sequence of one-character strings.                                      *)
(***************************************************************************)
EXTENDS Integers, Sequences, FiniteSets, TLC

None == <<>>
Some(x) == <<x>>
IsSome(o) == Len(o) = 1
Val(o) == o[1]

\* Python's "a or b" on optional strings / lists: the first truthy operand,
\* where None and the empty string / empty list are falsy.
Truthy(o) == IsSome(o) /\ Val(o) # <<>>
Or(a, b) == IF Truthy(a) THEN a ELSE b
\* the same on optional identifiers, kept as TLA+ strings
TruthyId(o) == IsSome(o) /\ Val(o) # ""
OrId(a, b) == IF TruthyId(a) THEN a ELSE b

\* needle in hay (Python's str.__contains__).
Contains(hay, needle) ==
    \E i \in 1..(Len(hay) - Len(needle) + 1) :
        SubSeq(hay, i, i + Len(needle) - 1) = needle

(***************************************************************************)
(* Configuration (module globals of app.py).                               *)
(***************************************************************************)
ACCESS_GROUP_NAME == <<"s", "a">>
SITE_TOKEN == "site"
RESOURCE_GROUP_ID == "rg"

(***************************************************************************)
(* find_access_group_id                                                    *)
(***************************************************************************)
OtherName == <<"z", "z">>
LongName == <<"s", "a", "x">>
PrefixedName == <<"x", "s", "a">>

Grp(n, d, i, g) == [name |-> n, display_name |-> d, id |-> i, group |-> g]

GExactName == Grp(Some(ACCESS_GROUP_NAME), None, Some("g1"), None)
GExactDisplay == Grp(Some(OtherName), Some(ACCESS_GROUP_NAME), Some("g2"), None)
GNested == Grp(None, None, None, Some([name |-> Some(ACCESS_GROUP_NAME), id |-> Some("g3")]))
GSubName == Grp(Some(LongName), None, Some("g4"), None)
GSubDisplay == Grp(None, Some(PrefixedName), Some("g5"), None)
GShadowed == Grp(Some(OtherName), Some(LongName), Some("g6"), None)
GOther == Grp(Some(OtherName), None, Some("g7"), None)
GExactNoId == Grp(Some(ACCESS_GROUP_NAME), None, None, None)
GEmptyName == Grp(Some(<<>>), Some(LongName), Some("g8"), None)
GEmptyId == Grp(Some(ACCESS_GROUP_NAME), None, Some(""), None)

GroupUniverse ==
    {GExactName, GExactDisplay, GNested, GSubName, GSubDisplay, GShadowed,
     GOther, GExactNoId, GEmptyName, GEmptyId}

\* first loop, line 58: exact name or display_name
ExactHit(g, group_name) ==
    \/ g.name = Some(group_name)
    \/ g.display_name = Some(group_name)

\* first loop, line 60: nested {"group": {"name": ...}}
NestedHit(g, group_name) ==
    /\ IsSome(g.group)
    /\ Val(g.group).name = Some(group_name)

\* second loop, line 64: group_name in (name or display_name or "")
SubstringHit(g, group_name) ==
    Contains(Val(Or(Or(g.name, g.display_name), Some(<<>>))), group_name)

\* "for g in groups: if ...: return": the first index of hits, 0 when none
FirstIndex(hits) ==
    IF hits = {} THEN 0 ELSE CHOOSE i \in hits : \A j \in hits : i <= j

\* js.get("groups") or js.get("resources") or []
GroupsOf(js) == Val(Or(Or(js.groups, js.resources), Some(<<>>)))

SubstringFallback(groups, group_name) ==
    LET k == FirstIndex({i \in DOMAIN groups : SubstringHit(groups[i], group_name)})
    IN IF k = 0 THEN None ELSE groups[k].id

find_access_group_id(js, group_name) ==
    LET groups == GroupsOf(js)
        k == FirstIndex({i \in DOMAIN groups :
                            \/ ExactHit(groups[i], group_name)
                            \/ NestedHit(groups[i], group_name)})
    IN IF k # 0
       THEN IF ExactHit(groups[k], group_name)
            THEN groups[k].id
            ELSE Val(groups[k].group).id
       ELSE SubstringFallback(groups, group_name)

\* a test for None alone, which lets an empty id through
NotFoundOnlyNone(gid) == gid = None

\* "if not group_id": None and "" are falsy
NotFound(gid) == ~TruthyId(gid)

(***************************************************************************)
(* Bounds of the model.                                                    *)
(***************************************************************************)
MaxRequests == 2
MaxTicks == 1

Emails == {"a", "b"}
Keys == {"k1", "k2"}

\* datetime.timedelta(days=...) counted in seconds
SecondsPerDay == 86400
\* days=7 passed by invite() to create_time_limited_policy
PolicyDays == 7
\* the clock when the service starts
StartTime == 10 * SecondsPerDay

(***************************************************************************)
(* app.py keeps no mutable state of its own (its module globals are read   *)
(* once from the environment): everything a handler changes lives in the   *)
(* external services, which it reaches one blocking call at a time.  The   *)
(* handlers are therefore modelled one request at a time, each external    *)
(* call one step, the services' state global.                              *)
(***************************************************************************)
VARIABLES
    utcnow,         \* datetime.datetime.utcnow(), in seconds
    served,         \* number of requests received so far
    op,             \* the handler serving the current request
    pc,             \* the handler's position
    req,            \* /invite: the requester and the JSON body
    group_id,       \* the local group_id
    result,         \* the response (status code and body)
    calls,          \* the external calls the request issued, in order
    policies,       \* the authorization store behind POST /v2/policies
    accountMembers, \* the emails the user-management service accepted
    inviteLog,      \* the invite calls the user-management service received
    roster,         \* the member pages GET /v2/groups/{id}/members serves
    url,            \* list_access_group_members: the page to fetch next
    members,        \* list_access_group_members / cleanup: the members list
    idx,            \* cleanup: position of the for loop in members
    deleted,        \* cleanup: the deleted list
    now,            \* cleanup: the local now of line 263
    dirJs,          \* resolution alone: the directory's JSON answer
    dirOut          \* resolution alone: what find_access_group_id returned

reqVars == <<served, op, pc, req, group_id, result, calls>>
grantVars == <<policies, accountMembers, inviteLog>>
sweepVars == <<url, members, idx, deleted, now>>
resolveVars == <<dirJs, dirOut>>
vars == <<utcnow, reqVars, grantVars, roster, sweepVars, resolveVars>>

(***************************************************************************)
(* Both handlers: authentication, token, group                             *)
(***************************************************************************)
NoReq == [key |-> "k1", email |-> None]
NoResult == [code |-> 0, invite_status |-> None, warning |-> None, policy |-> None]

Headers == {None, Some(SITE_TOKEN), Some("bad")}
Bodies == {None} \cup {Some(e) : e \in Emails}

\* what GET /v2/groups may answer to invite() and cleanup()
DirResponses ==
    { [groups |-> Some(<<GExactName, GSubName>>), resources |-> None],
      [groups |-> None, resources |-> Some(<<GSubName>>)],
      [groups |-> Some(<<GOther>>), resources |-> None],
      [groups |-> Some(<<GEmptyId>>), resources |-> None],
      [groups |-> None, resources |-> None] }

Respond(code, body) ==
    /\ result' = [body EXCEPT !.code = code]
    /\ pc' = "done"

\* an unhandled exception leaves the handler: Flask answers 500
Raise == Respond(500, NoResult)

Call(api, res, arg) == calls' = Append(calls, [api |-> api, res |-> res, arg |-> arg])

\* lines 205-208 and 251-254:
\* "if SITE_TOKEN: ... if not header_token or header_token != SITE_TOKEN"
Forbidden(header) == SITE_TOKEN # "" /\ (header = None \/ header # Some(SITE_TOKEN))

\* lines 204-215: a new /invite request; authenticate, read the body
ReceiveInvite ==
    /\ pc \in {"idle", "done"}
    /\ served < MaxRequests
    /\ served' = served + 1
    /\ op' = "invite"
    /\ calls' = <<>>
    /\ group_id' = None
    /\ \E k \in Keys, h \in Headers, e \in Bodies :
        IF Forbidden(h)
        THEN Respond(403, NoResult) /\ req' = NoReq
        ELSE IF e = None
             THEN Respond(400, NoResult) /\ req' = NoReq
             ELSE /\ req' = [key |-> k, email |-> e]
                  /\ pc' = "token"
                  /\ result' = NoResult
    /\ UNCHANGED <<utcnow, grantVars, roster, sweepVars, resolveVars>>

\* lines 217 and 256: get_iam_token(); a failed exchange raises out of the handler
GetToken ==
    /\ pc = "token"
    /\ \E ok \in BOOLEAN :
        IF ok
        THEN Call("token", "ok", 0) /\ pc' = "group" /\ UNCHANGED result
        ELSE Call("token", "error", 0) /\ Raise
    /\ UNCHANGED <<utcnow, served, op, req, group_id, grantVars, roster, sweepVars,
                   resolveVars>>

\* the step after a resolved group: line 223 of invite(), line 261 of cleanup()
AfterGroup == IF op = "invite" THEN "invite" ELSE "list"

\* lines 219-221 and 257-259
FindGroup ==
    /\ pc = "group"
    /\ \/ \E js \in DirResponses :
            LET gid == find_access_group_id(js, ACCESS_GROUP_NAME)
            IN /\ Call("groups", "ok", 0)
               /\ group_id' = gid
               /\ IF NotFound(gid)
                  THEN Respond(404, NoResult)
                  ELSE pc' = AfterGroup /\ UNCHANGED result
       \/ Call("groups", "error", 0) /\ Raise /\ UNCHANGED group_id
    /\ UNCHANGED <<utcnow, served, op, req, grantVars, roster, sweepVars, resolveVars>>

(***************************************************************************)
(* /invite                                                                 *)
(***************************************************************************)
\* status codes POST /v2/accounts/{id}/users may answer
InviteStatuses == {202, 400}
Is2xx(st) == st \in 200..299

\* where invite() goes once invite_user_to_account returned status st:
\* lines 224-230 copy the status into the result and go on to the policy
AfterInvite(st) == "policy"

\* lines 223-226: invite_user_to_account returns the status, whatever it is;
\* a timeout or transport error raises out of the handler
Invite ==
    /\ pc = "invite"
    /\ inviteLog' = Append(inviteLog, [key |-> req.key, at |-> utcnow])
    /\ \/ \E st \in InviteStatuses :
            /\ Call("invite", IF Is2xx(st) THEN "ok" ELSE "status", 0)
            /\ result' = [result EXCEPT !.invite_status = Some(st)]
            /\ accountMembers' =
                  IF Is2xx(st) THEN accountMembers \cup {Val(req.email)}
                  ELSE accountMembers
            /\ pc' = AfterInvite(st)
       \/ Call("invite", "error", 0) /\ Raise /\ UNCHANGED accountMembers
    /\ UNCHANGED <<utcnow, served, op, req, group_id, policies, roster, sweepVars,
                   resolveVars>>

\* lines 89-133: the POSTed policy document
PolicyPayload(access_group_id, resource_group_id, days, email) ==
    [subject |-> access_group_id, resource |-> resource_group_id, email |-> email,
     start |-> utcnow, end |-> utcnow + days * SecondsPerDay]

\* only "except requests.HTTPError": any other exception leaves the handler
PolicyFailureOnlyHttp(body, kind) ==
    IF kind = "http_error"
    THEN [body EXCEPT !.code = 202, !.warning = Some("policy creation failed")]
    ELSE [NoResult EXCEPT !.code = 500]

\* lines 233-247: both except branches answer 202 with a warning
PolicyFailure(body, kind) ==
    [body EXCEPT !.code = 202,
                 !.warning = Some(IF kind = "http_error"
                                  THEN "policy creation failed"
                                  ELSE "policy creation error")]

\* lines 229-247: always POST a new policy; no existing policy is looked up
CreatePolicy ==
    /\ pc = "policy"
    /\ pc' = "done"
    /\ \/ LET p == PolicyPayload(Val(group_id), RESOURCE_GROUP_ID, PolicyDays, Val(req.email))
          IN /\ Call("policy", "ok", 0)
             /\ policies' = Append(policies, p)
             /\ result' = [result EXCEPT !.code = 200, !.policy = Some(p)]
       \/ \E kind \in {"http_error", "exception"} :
            /\ Call("policy", kind, 0)
            /\ result' = PolicyFailure(result, kind)
            /\ UNCHANGED policies
    /\ UNCHANGED <<utcnow, served, op, req, group_id, accountMembers, inviteLog, roster,
                   sweepVars, resolveVars>>

Tick ==
    /\ utcnow < StartTime + MaxTicks * SecondsPerDay
    /\ utcnow' = utcnow + SecondsPerDay
    /\ UNCHANGED <<reqVars, grantVars, roster, sweepVars, resolveVars>>

(***************************************************************************)
(* The member directory and the user profiles, as the services hold them   *)
(***************************************************************************)
MaxMembers == 2
MaxPages == 2

\* "if age.days >= 7", line 275
CleanupDays == 7

\* one entry of a members page; the code reads the first truthy of five keys
MemberRec(a, b, c, d, e) ==
    [iam_id |-> a, iamId |-> b, id |-> c, principal_id |-> d, user_id |-> e]
Member(i) == MemberRec(Some(i), None, None, None, None)

\* a timestamp string of a profile, by what dateutil's parser makes of it:
\* dt = None when the parser raises, else the wall-clock seconds it read and
\* the UTC offset it read, if any
BadStr == [empty |-> FALSE, dt |-> None]
EmptyStr == [empty |-> TRUE, dt |-> None]
NaiveStr(w) == [empty |-> FALSE, dt |-> Some([wall |-> w, off |-> None])]
OffsetStr(w, o) == [empty |-> FALSE, dt |-> Some([wall |-> w, off |-> Some(o)])]

RecognizedKeys ==
    <<"added_on", "addedOn", "created", "created_at", "createdAt", "created_on">>
KeySet == {RecognizedKeys[i] : i \in 1..Len(RecognizedKeys)}

NoFields == [k \in KeySet |-> None]
Field(k, v) == [NoFields EXCEPT ![k] = Some(v)]
Profile(f, res, usr) == [fields |-> f, resources |-> res, users |-> usr]
Http(st, js) == [status |-> st, json |-> js]

DaysBefore(d) == StartTime - d * SecondsPerDay

UserIds ==
    {"u404", "uErr", "uNoField", "uBad", "u3", "u7less", "u7", "u8off", "uNested9"}

\* what the user-management service holds for each user
ProfileTable ==
    [i \in UserIds |->
        CASE i = "u404" -> Http(404, Profile(NoFields, None, None))
          [] i = "uErr" -> Http(503, Profile(NoFields, None, None))
          [] i = "uNoField" -> Http(200, Profile(NoFields, None, None))
          [] i = "uBad" ->
                Http(200, Profile([Field("created_at", BadStr) EXCEPT
                                      !["added_on"] = Some(EmptyStr)],
                                  Some(<<>>), Some(<<Field("created", BadStr)>>)))
          [] i = "u7less" ->
                Http(200, Profile(Field("created_at", NaiveStr(DaysBefore(7) + 1)), None, None))
          [] i = "u7" ->
                Http(200, Profile(Field("createdAt", OffsetStr(DaysBefore(7), 0)), None, None))
          [] i = "u8off" ->
                Http(200, Profile([Field("added_on", BadStr) EXCEPT
                                      !["created_on"] =
                                          Some(OffsetStr(DaysBefore(8) + 3600, 3600))],
                                  None, None))
          [] i = "uNested9" ->
                Http(200, Profile(NoFields,
                                  Some(<<Field("addedOn", NaiveStr(DaysBefore(9)))>>), None))
          [] OTHER -> Http(200, Profile(Field("added_on", NaiveStr(DaysBefore(3))), None, None))]

\* GET /v2/accounts/{id}/users/{iam_id}
ProfileResponse(iam_id) == ProfileTable[iam_id]

MemberUniverse ==
    {Member(i) : i \in UserIds \ {"u8off"}}
      \cup {MemberRec(None, Some(""), None, None, None),
            MemberRec(Some(""), None, Some("u8off"), None, None)}

\* one page of GET /v2/groups/{id}/members
Page(m, r, u, n) == [members |-> m, resources |-> r, users |-> u, next |-> n]

SeqsUpTo(S, n) == UNION {[1..k -> S] : k \in 0..n}

\* a chain of pages: every page but the last names the next one (the last
\* has no "next", or an empty one)
Chain(lists) ==
    [i \in 1..Len(lists) |->
        [lists[i] EXCEPT !.next = IF i < Len(lists) THEN Some(i + 1) ELSE @]]

\* rosters of one page, any members
OnePageRosters ==
    {<<Page(Some(l), None, None, None)>> : l \in SeqsUpTo(MemberUniverse, MaxMembers)}

PageBodies ==
    { Page(Some(<<Member("u8off"), Member("u3")>>), None, None, None),
      Page(Some(<<>>), Some(<<Member("u7")>>), None, None),
      Page(None, None, Some(<<Member("uNoField")>>), None),
      Page(None, None, None, Some(0)) }

\* rosters of several pages
PagedRosters == {Chain(l) : l \in SeqsUpTo(PageBodies, MaxPages) \ {<<>>}}

Rosters == OnePageRosters \cup PagedRosters

DefaultRoster ==
    Chain(<<Page(Some(<<Member("u8off"), Member("u404")>>), None, None, None),
            Page(None, Some(<<Member("u3")>>), None, None)>>)

(***************************************************************************)
(* list_access_group_members                                               *)
(***************************************************************************)
\* line 148: js.get("members") or js.get("resources") or js.get("users") or []
PageMembers(js) == Val(Or(Or(Or(js.members, js.resources), js.users), Some(<<>>)))

\* "members = page_members": every page replaces the ones before
ExtendOverwrite(list, page_members) == page_members

\* line 149: members.extend(page_members)
Extend(list, page_members) == list \o page_members

\* line 151: if js.get("next")
HasNext(js) == IsSome(js.next) /\ Val(js.next) # 0

\* lines 144-156, one turn of the loop; line 262-263 when the loop is left
ListPage ==
    /\ pc = "list"
    /\ \/ /\ Call("members", "ok", url)
          /\ members' = Extend(members, PageMembers(roster[url]))
          /\ IF HasNext(roster[url])
             THEN /\ url' = Val(roster[url].next)
                  /\ UNCHANGED <<pc, idx, deleted, now>>
             ELSE /\ pc' = "sweep"
                  /\ idx' = 1
                  /\ deleted' = <<>>
                  /\ now' = utcnow
                  /\ UNCHANGED url
          /\ UNCHANGED result
       \/ /\ Call("members", "error", url)
          /\ Raise
          /\ UNCHANGED sweepVars
    /\ UNCHANGED <<utcnow, served, op, req, group_id, grantVars, roster, resolveVars>>

(***************************************************************************)
(* /cleanup                                                                *)
(***************************************************************************)
\* lines 250-254: a new /cleanup request
ReceiveCleanup ==
    /\ pc \in {"idle", "done"}
    /\ served < MaxRequests
    /\ served' = served + 1
    /\ op' = "cleanup"
    /\ calls' = <<>>
    /\ group_id' = None
    /\ req' = NoReq
    /\ url' = 1
    /\ members' = <<>>
    /\ idx' = 0
    /\ deleted' = <<>>
    /\ now' = 0
    /\ \E h \in Headers :
        IF Forbidden(h)
        THEN Respond(403, NoResult)
        ELSE pc' = "token" /\ result' = NoResult
    /\ UNCHANGED <<utcnow, grantVars, roster, resolveVars>>

\* line 265: the first truthy of the five id keys
IamIdOf(m) ==
    OrId(OrId(OrId(OrId(m.iam_id, m.iamId), m.id), m.principal_id), m.user_id)

\* lines 158-165: None on 404, raise on any other error status, else the JSON
get_user_profile(resp) ==
    IF resp.status = 404 THEN [raised |-> FALSE, value |-> None]
    ELSE IF resp.status >= 400 THEN [raised |-> TRUE, value |-> None]
    ELSE [raised |-> FALSE, value |-> Some(resp.json)]

\* lines 171-178 and 183-190: the first recognized key, in order, whose value
\* is truthy and parses
FirstParsed(f) ==
    LET Good(i) == /\ IsSome(f[RecognizedKeys[i]])
                   /\ ~Val(f[RecognizedKeys[i]]).empty
                   /\ Val(f[RecognizedKeys[i]]).dt # None
    IN IF \E i \in 1..Len(RecognizedKeys) : Good(i)
       THEN Val(f[RecognizedKeys[CHOOSE i \in 1..Len(RecognizedKeys) :
                    Good(i) /\ \A j \in 1..(i - 1) : ~Good(j)]]).dt
       ELSE None

\* a profile without a usable timestamp is given the epoch as its creation time
parse_or_epoch(profile_json) ==
    IF profile_json = None THEN Some([wall |-> 0, off |-> None])
    ELSE LET top == FirstParsed(Val(profile_json).fields)
             resources == Val(Or(Or(Val(profile_json).resources, Val(profile_json).users),
                                 Some(<<>>)))
         IN IF top # None THEN top
            ELSE IF resources # <<>> /\ FirstParsed(resources[1]) # None
            THEN FirstParsed(resources[1])
            ELSE Some([wall |-> 0, off |-> None])

\* lines 167-191 (an empty profile dict has no key and ends at line 191 as well)
parse_user_created_at(profile_json) ==
    IF profile_json = None THEN None
    ELSE LET top == FirstParsed(Val(profile_json).fields)
             resources == Val(Or(Or(Val(profile_json).resources, Val(profile_json).users),
                                 Some(<<>>)))
         IN IF top # None THEN top
            ELSE IF resources # <<>> THEN FirstParsed(resources[1])
            ELSE None

\* lines 272-273: a naive datetime is taken as UTC
UtcOf(dt) == IF dt.off = None THEN dt.wall ELSE dt.wall - Val(dt.off)

\* line 274 and timedelta.days: whole days, rounded down
AgeDays(t, created_dt) == (t - UtcOf(created_dt)) \div SecondsPerDay

\* "age.days > 7"
ExpiredStrictly(t, created_dt) == AgeDays(t, created_dt) > CleanupDays

\* line 275
Expired(t, created_dt) == AgeDays(t, created_dt) >= CleanupDays

\* lines 264-275: one member of the for loop, up to the decision to delete
SweepMember ==
    /\ pc = "sweep"
    /\ idx <= Len(members)
    /\ LET iam_id == IamIdOf(members[idx])
           profile == get_user_profile(ProfileResponse(Val(iam_id)))
           created_dt == parse_user_created_at(profile.value)
       IN IF ~TruthyId(iam_id)
          THEN idx' = idx + 1 /\ UNCHANGED <<pc, result, calls>>
          ELSE IF profile.raised
          THEN Call("profile", "error", idx) /\ Raise /\ UNCHANGED idx
          ELSE /\ Call("profile", "ok", idx)
               /\ UNCHANGED result
               /\ IF created_dt # None /\ Expired(now, Val(created_dt))
                  THEN pc' = "delete" /\ UNCHANGED idx
                  ELSE idx' = idx + 1 /\ UNCHANGED pc
    /\ UNCHANGED <<utcnow, served, op, req, group_id, grantVars, roster, url, members,
                   deleted, now, resolveVars>>

\* status codes DELETE /v2/accounts/{id}/users/{iam_id} may answer
DeleteStatuses == {204, 500}

\* lines 276-277: delete_user returns the status, whatever it is; a timeout
\* or transport error raises out of the handler
SweepDelete ==
    /\ pc = "delete"
    /\ \/ \E st \in DeleteStatuses :
            /\ Call("delete", IF Is2xx(st) THEN "ok" ELSE "status", idx)
            /\ deleted' = Append(deleted, [iam_id |-> Val(IamIdOf(members[idx])),
                                           delete_status |-> st])
            /\ idx' = idx + 1
            /\ pc' = "sweep"
            /\ UNCHANGED result
       \/ Call("delete", "error", idx) /\ Raise /\ UNCHANGED <<idx, deleted>>
    /\ UNCHANGED <<utcnow, served, op, req, group_id, grantVars, roster, url, members,
                   now, resolveVars>>

\* line 279
CleanupReturn ==
    /\ pc = "sweep"
    /\ idx > Len(members)
    /\ result' = [code |-> 200, deleted |-> deleted, checked |-> Len(members)]
    /\ pc' = "done"
    /\ UNCHANGED <<utcnow, served, op, req, group_id, calls, grantVars, roster, sweepVars,
                   resolveVars>>

(***************************************************************************)
(* find_access_group_id on its own, over many directory answers            *)
(***************************************************************************)
MaxGroups == 2

ResolveInputs ==
    UNION { { [groups |-> Some(l), resources |-> None],
              [groups |-> None, resources |-> Some(l)],
              [groups |-> Some(<<>>), resources |-> Some(l)] }
            : l \in SeqsUpTo(GroupUniverse, MaxGroups) }

NoAnswer == <<"pending">>

Resolve ==
    /\ dirOut = NoAnswer
    /\ dirOut' = find_access_group_id(dirJs, ACCESS_GROUP_NAME)
    /\ UNCHANGED <<utcnow, reqVars, grantVars, roster, sweepVars, dirJs>>

(***************************************************************************)
(* Specifications                                                          *)
(***************************************************************************)
InitRequest ==
    /\ utcnow = StartTime
    /\ served = 0
    /\ op = "none"
    /\ pc = "idle"
    /\ req = NoReq
    /\ group_id = None
    /\ result = NoResult
    /\ calls = <<>>
    /\ policies = <<>>
    /\ accountMembers = {}
    /\ inviteLog = <<>>
    /\ url = 1
    /\ members = <<>>
    /\ idx = 0
    /\ deleted = <<>>
    /\ now = 0

\* both handlers, against one directory
Init ==
    /\ InitRequest
    /\ roster = DefaultRoster
    /\ dirJs = [groups |-> None, resources |-> None]
    /\ dirOut = None

Next ==
    \/ ReceiveInvite
    \/ ReceiveCleanup
    \/ GetToken
    \/ FindGroup
    \/ Invite
    \/ CreatePolicy
    \/ ListPage
    \/ SweepMember
    \/ SweepDelete
    \/ CleanupReturn
    \/ Tick

Spec == Init /\ [][Next]_vars

\* /cleanup against every directory of Rosters
InitSweep ==
    /\ InitRequest
    /\ roster \in Rosters
    /\ dirJs = [groups |-> None, resources |-> None]
    /\ dirOut = None

NextSweep ==
    \/ ReceiveCleanup
    \/ GetToken
    \/ FindGroup
    \/ ListPage
    \/ SweepMember
    \/ SweepDelete
    \/ CleanupReturn
    \/ Tick

SpecSweep == InitSweep /\ [][NextSweep]_vars

\* find_access_group_id over every answer of ResolveInputs
InitResolve ==
    /\ InitRequest
    /\ roster = DefaultRoster
    /\ dirJs \in ResolveInputs
    /\ dirOut = NoAnswer

NextResolve == Resolve

SpecResolve == InitResolve /\ [][NextResolve]_vars

(***************************************************************************)
(* Properties                                                              *)
(***************************************************************************)
CallsTo(api) == {i \in DOMAIN calls : calls[i].api = api}
InInvite == op = "invite"
InCleanup == op = "cleanup"

\* the limit and the trailing window of the grant rate limit (24 hours); the
\* limit is one less than the requests the model serves
RateLimit == MaxRequests - 1
RateWindow == SecondsPerDay

\* C1: idempotent policy creation.  Grant requests for one email and one
\* group inside the grant window leave one policy for that pair in the
\* store: no two stored policies have the same subject group and the same
\* email while the window of the earlier one is still open.
C1_OnePolicyPerGroupAndEmail ==
    \A i, j \in DOMAIN policies :
        (/\ i < j
         /\ policies[i].subject = policies[j].subject
         /\ policies[i].email = policies[j].email)
        => policies[j].start > policies[i].end

\* C2: an invite call answered with a non-2xx status ends the request with a
\* failed outcome: the request is over, it issued no policy-creation call,
\* and its response is not success-shaped (not 2xx).
C2_FailedInviteEndsRequest ==
    (/\ InInvite
     /\ \E i \in CallsTo("invite") : calls[i].res = "status")
    => /\ pc = "done"
       /\ CallsTo("policy") = {}
       /\ ~Is2xx(result.code)

\* the invite call of the finished request returned 2xx and its policy call failed
InviteOkPolicyFailed ==
    /\ InInvite
    /\ pc = "done"
    /\ \E i \in CallsTo("invite"), j \in CallsTo("policy") :
        /\ i < j
        /\ calls[i].res = "ok"
        /\ calls[j].res \in {"http_error", "exception"}

\* C3: partial failure classification.  When the invite call returned 2xx
\* and the policy call failed (HTTP error or any other exception), the
\* response is the partial one: 202 with a warning and no policy, carrying
\* the invite status; the request issued no member-removal call and the
\* invited email is still a member.
C3_PartialOutcome ==
    InviteOkPolicyFailed
    => /\ result.code = 202
       /\ IsSome(result.warning)
       /\ result.policy = None
       /\ IsSome(result.invite_status) /\ Is2xx(Val(result.invite_status))
       /\ CallsTo("delete") = {}
       /\ Val(req.email) \in accountMembers

\* C3 happens: a 2xx invite followed by a policy call that raised something
\* other than an HTTP error
C3_Witness ==
    /\ InviteOkPolicyFailed
    /\ calls[Len(calls)].res = "exception"
    /\ result.code = 202

\* C4: sliding-window rate limit.  For every requester key, the invite
\* calls made for that key inside the trailing window never number more
\* than the limit.
C4_AdmissionsWithinLimit ==
    \A k \in Keys :
        Cardinality({i \in DOMAIN inviteLog :
                        /\ inviteLog[i].key = k
                        /\ inviteLog[i].at > utcnow - RateWindow}) <= RateLimit

WorkApis == {"invite", "policy", "members", "profile", "delete"}

\* C9: no work without a resolved group.  Every invite, policy, listing,
\* profile or removal call of a request comes after a successful token
\* exchange and a group lookup that gave a group id; a request whose token
\* exchange failed or whose group was not found is over and made none of
\* those calls.
C9_NoWorkWithoutGroup ==
    /\ \A i \in DOMAIN calls :
          calls[i].api \in WorkApis
          => /\ i >= 3
             /\ calls[1] = [api |-> "token", res |-> "ok", arg |-> 0]
             /\ calls[2] = [api |-> "groups", res |-> "ok", arg |-> 0]
             /\ TruthyId(group_id)
    /\ (\/ \E i \in CallsTo("token") : calls[i].res = "error"
        \/ \E i \in CallsTo("groups") : calls[i].res = "error" \/ ~TruthyId(group_id))
       => /\ pc = "done"
          /\ result.code \in {404, 500}
          /\ \A i \in DOMAIN calls : calls[i].api \notin WorkApis

\* C9 happens: a sweep that got as far as a removal call, after a grant
\* request that got as far as creating its policy
C9_Witness ==
    /\ InCleanup
    /\ CallsTo("delete") # {}
    /\ policies # <<>>

(***************************************************************************)
(* Properties of the sweep                                                 *)
(***************************************************************************)
\* the members the for loop of cleanup() is through with
Swept ==
    IF InCleanup /\ idx >= 1 THEN {i \in 1..Len(members) : i < idx} ELSE {}

ListingReturned == InCleanup /\ idx >= 1
Reported == InCleanup /\ pc = "done" /\ result.code = 200

DeleteCalls(i) == {c \in CallsTo("delete") : calls[c].arg = i}

\* the profile the service holds for member i, when the member has an id
HasId(i) == TruthyId(IamIdOf(members[i]))
IdOf(i) == Val(IamIdOf(members[i]))

\* member i has an enrollment time and is at least CleanupDays days old at
\* the sweep's now, to the second
OldEnough(i) ==
    /\ HasId(i)
    /\ LET created_dt == parse_user_created_at(get_user_profile(ProfileResponse(IdOf(i))).value)
       IN /\ created_dt # None
          /\ now - UtcOf(Val(created_dt)) >= CleanupDays * SecondsPerDay

\* how many members up to i are old enough
Rank(i) == Cardinality({j \in 1..i : OldEnough(j)})

\* C5: expiry boundary.  A swept member got a removal call (exactly one) if
\* and only if its enrollment time was determined and lies 7 whole days or
\* more before the sweep's now; the report's deleted list names exactly
\* those members, in order.
C5_ExpiryBoundary ==
    /\ \A i \in Swept :
          Cardinality(DeleteCalls(i)) = IF OldEnough(i) THEN 1 ELSE 0
    /\ Reported
       => /\ Len(result.deleted) = Rank(Len(members))
          /\ \A i \in 1..Len(members) :
                OldEnough(i) => result.deleted[Rank(i)].iam_id = IdOf(i)

\* C5 happens: a member enrolled 7 days less one second ago is kept and one
\* enrolled 7 days ago to the second is deleted
C5_Witness ==
    /\ Reported
    /\ Len(members) = 2
    /\ HasId(1) /\ IdOf(1) = "u7less"
    /\ HasId(2) /\ IdOf(2) = "u7"
    /\ now = StartTime
    /\ DeleteCalls(1) = {}
    /\ Len(result.deleted) = 1
    /\ result.deleted[1].iam_id = "u7"

\* no recognized key of f holds a value the parser reads
NoTimestampIn(f) ==
    \A k \in KeySet : f[k] = None \/ Val(f[k]).empty \/ Val(f[k]).dt = None

\* the enrollment time of member i cannot be determined: no id to ask for,
\* no profile, or no timestamp that parses (in the profile or in the first
\* entry of its resources / users list)
Undetermined(i) ==
    \/ ~HasId(i)
    \/ LET resp == ProfileResponse(IdOf(i))
           nested == Val(Or(Or(resp.json.resources, resp.json.users), Some(<<>>)))
       IN \/ resp.status = 404
          \/ /\ resp.status = 200
             /\ NoTimestampIn(resp.json.fields)
             /\ nested = <<>> \/ NoTimestampIn(nested[1])

RECURSIVE Listed(_)
\* the members of the first n pages of the roster
Listed(n) == IF n = 0 THEN <<>> ELSE Listed(n - 1) \o PageMembers(roster[n])

\* C6: ambiguous data safety.  A member whose enrollment time cannot be
\* determined never gets a removal call and is not in deleted, and checked
\* is the number of members the listing returned, such members included.
C6_AmbiguousNeverDeleted ==
    /\ ListingReturned
       => \A i \in 1..Len(members) : Undetermined(i) => DeleteCalls(i) = {}
    /\ Reported
       => /\ result.checked = Len(Listed(Len(roster)))
          /\ Len(result.deleted) <=
                Cardinality({i \in 1..Len(members) : ~Undetermined(i)})
          /\ \A k \in DOMAIN result.deleted :
                \E i \in 1..Len(members) :
                    ~Undetermined(i) /\ IdOf(i) = result.deleted[k].iam_id

\* C6 happens: a report that counts a member without profile and a member
\* with unparsable timestamps, and deletes neither
C6_Witness ==
    /\ Reported
    /\ Len(members) = 2
    /\ HasId(1) /\ IdOf(1) = "u404"
    /\ HasId(2) /\ IdOf(2) = "uBad"
    /\ result.checked = 2
    /\ result.deleted = <<>>

\* C7: a failed removal call (non-2xx status, timeout or transport error)
\* does not abort the sweep: with nothing but removal calls failing, the
\* sweep that made them ends with a report, every old-enough member got its
\* removal call, and every removal is in the report.
C7_SweepSurvivesFailedDelete ==
    (/\ InCleanup
     /\ pc = "done"
     /\ \E c \in CallsTo("delete") : calls[c].res \in {"status", "error"}
     /\ \A c \in CallsTo("profile") : calls[c].res = "ok")
    => /\ result.code = 200
       /\ \A i \in 1..Len(members) : OldEnough(i) => DeleteCalls(i) # {}
       /\ Len(result.deleted) = Cardinality(CallsTo("delete"))

FetchesOf == SelectSeq(calls, LAMBDA c : c.api = "members")

\* C10: pagination completeness.  While listing, the members gathered are
\* those of the pages fetched so far, in order; when the listing returns,
\* members is the concatenation of every page of the chain in chain order
\* and each page was fetched exactly once, the last fetched page being the
\* first without a continuation reference.
C10_PaginationComplete ==
    /\ (InCleanup /\ pc = "list")
       => /\ members = Listed(Len(FetchesOf))
          /\ url = Len(FetchesOf) + 1
    /\ ListingReturned
       => /\ members = Listed(Len(roster))
          /\ Len(FetchesOf) = Len(roster)
          /\ \A k \in 1..Len(FetchesOf) :
                /\ FetchesOf[k] = [api |-> "members", res |-> "ok", arg |-> k]
                /\ HasNext(roster[k]) <=> k < Len(roster)

\* C10 happens: a listing of two pages with members on both
C10_Witness ==
    /\ ListingReturned
    /\ Len(roster) = 2
    /\ PageMembers(roster[1]) # <<>>
    /\ PageMembers(roster[2]) # <<>>
    /\ Len(members) = 3

(***************************************************************************)
(* Properties of find_access_group_id                                      *)
(***************************************************************************)
\* group g of an answer carries exactly the name n (as its name, its display
\* name, or the name of the group record it wraps) and the id gid
NamedExactly(g, n, gid) ==
    \/ /\ g.name = Some(n) \/ g.display_name = Some(n)
       /\ g.id = gid
    \/ /\ IsSome(g.group)
       /\ Val(g.group).name = Some(n)
       /\ Val(g.group).id = gid

\* C8: exact-match group resolution.  A returned id is the id of a group of
\* the answer whose name or display name equals the requested name; an
\* answer without such a group resolves to no id.
C8_ExactMatchOnly ==
    (dirOut # NoAnswer /\ dirOut # None)
    => \E i \in DOMAIN GroupsOf(dirJs) :
          NamedExactly(GroupsOf(dirJs)[i], ACCESS_GROUP_NAME, dirOut)

====
